---- MODULE Spec2Model ----
(***************************************************************************)
(* Model of src/keys.rs: key generation, the file-backed key store, BLS    *)
(* signing / verification / aggregation and ECIES provisioning.           *)
(*                                                                         *)
(* Strings are sequences of one-character strings, byte strings are        *)
(* sequences of integers in 0..255, so that hex encoding, path building    *)
(* and key (de)serialisation are computed rather than assumed.             *)
(* Group elements of BLS12-381 and secp256k1 are represented by their      *)
(* discrete logarithm modulo a (small) prime group order; a pairing is     *)
(* multiplication of the logarithms.                                       *)
(***************************************************************************)
EXTENDS Integers, Sequences, FiniteSets, TLC

VARIABLES fs, last

vars == <<fs, last>>

(***************************************************************************)
(* Bounds of the model.                                                    *)
(***************************************************************************)
\* BLS secrets drawn by new_bls_key() are 1..MaxSk
MaxSk == 2
\* secp256k1 secrets drawn by generate_keypair() are 1..MaxEthSk
MaxEthSk == 2
\* ephemeral secrets drawn by ecies::encrypt are 1..MaxEph
MaxEph == 2
\* number of signers in the aggregation operations is 0..MaxN
MaxN == 3
\* messages are byte strings of length 0..MaxMsgLen over 0..MaxByte
MaxMsgLen == 2
MaxByte == 1

(***************************************************************************)
(* Characters, hex encoding and decoding (crate hex).                      *)
(***************************************************************************)
HexDigits == <<"0","1","2","3","4","5","6","7","8","9","a","b","c","d","e","f">>

HexDigitsUpper == <<"0","1","2","3","4","5","6","7","8","9","A","B","C","D","E","F">>

RECURSIVE Flatten(_)
Flatten(ss) == IF ss = <<>> THEN <<>> ELSE Head(ss) \o Flatten(Tail(ss))

\* hex::encode: two lower-case digits per byte, high nibble first
hex_encode(bytes) ==
    Flatten([i \in 1..Len(bytes) |->
                <<HexDigits[(bytes[i] \div 16) + 1], HexDigits[(bytes[i] % 16) + 1]>>])

IsHexChar(c) == \E k \in 1..16 : HexDigits[k] = c \/ HexDigitsUpper[k] = c

HexVal(c) == (CHOOSE k \in 1..16 : HexDigits[k] = c \/ HexDigitsUpper[k] = c) - 1

\* hex::decode: odd length or a non-hex character is an error; both cases accepted
hex_decode(str) ==
    IF Len(str) % 2 # 0 \/ \E i \in 1..Len(str) : ~IsHexChar(str[i])
    THEN [ok |-> FALSE, bytes |-> <<>>]
    ELSE [ok |-> TRUE,
          bytes |-> [i \in 1..(Len(str) \div 2) |->
                        16 * HexVal(str[2*i - 1]) + HexVal(str[2*i])]]

\* str::to_lowercase / char::to_uppercase on the characters that occur
to_lowercase_char(c) ==
    IF \E k \in 1..16 : HexDigitsUpper[k] = c
    THEN HexDigits[CHOOSE k \in 1..16 : HexDigitsUpper[k] = c]
    ELSE c

to_uppercase_char(c) ==
    IF \E k \in 1..16 : HexDigits[k] = c
    THEN HexDigitsUpper[CHOOSE k \in 1..16 : HexDigits[k] = c]
    ELSE c

to_lowercase(str) == [i \in 1..Len(str) |-> to_lowercase_char(str[i])]

(***************************************************************************)
(* Paths and the file system (std::path::PathBuf, std::fs).                *)
(***************************************************************************)
KEYS_DIR == <<".", "/", "e", "t", "c", "/", "k", "e", "y", "s", "/">>

BLS_PREFIX == <<"b", "l", "s", "_", "k", "e", "y", "s", "/">>

ETH_PREFIX == <<"e", "t", "h", "_", "k", "e", "y", "s", "/">>

RECURSIVE SplitPath(_, _)
\* the components of a path string: split on "/", drop empty and "." components
SplitPath(str, cur) ==
    LET keep(c) == IF c = <<>> \/ c = <<".">> THEN <<>> ELSE <<c>>
    IN  IF str = <<>> THEN keep(cur)
        ELSE IF Head(str) = "/" THEN keep(cur) \o SplitPath(Tail(str), <<>>)
        ELSE SplitPath(Tail(str), Append(cur, Head(str)))

\* [a, b].iter().collect::<PathBuf>(): push b onto a (b is relative in every call)
PathBuf(base, fname) == SplitPath(base, <<>>) \o SplitPath(fname, <<>>)

Parent(path) == SubSeq(path, 1, Len(path) - 1)

Prefixes(path) == {SubSeq(path, 1, k) : k \in 0..Len(path)}

IsDir(f, path) == path \in f.dirs

IsFile(f, path) == path \in DOMAIN f.files

\* fs::create_dir_all: creates the directory and every missing ancestor
create_dir_all(f, path) ==
    IF \E p \in Prefixes(path) : IsFile(f, p)
    THEN [ok |-> FALSE, fs |-> f]
    ELSE [ok |-> TRUE, fs |-> [f EXCEPT !.dirs = @ \cup Prefixes(path)]]

\* File::create (O_CREAT | O_TRUNC) refusing a file that exists
File_create_new(f, path) ==
    IF path = <<>> \/ IsDir(f, path) \/ ~IsDir(f, Parent(path)) \/ IsFile(f, path)
    THEN [ok |-> FALSE, fs |-> f]
    ELSE [ok |-> TRUE, fs |-> [f EXCEPT !.files = [p \in {path} |-> <<>>] @@ @]]

\* File::create: opens for writing, creates the file or truncates it; the parent must
\* exist
File_create(f, path) ==
    IF path = <<>> \/ IsDir(f, path) \/ ~IsDir(f, Parent(path))
    THEN [ok |-> FALSE, fs |-> f]
    ELSE [ok |-> TRUE, fs |-> [f EXCEPT !.files = [p \in {path} |-> <<>>] @@ @]]

\* Write::write_all on a handle File::create returned: the buffer goes to offset 0 of
\* the file as it is at that moment
write_all(f, path, buf) ==
    [ok |-> TRUE,
     fs |-> [f EXCEPT !.files[path] = buf \o SubSeq(@, Len(buf) + 1, Len(@))]]

\* fs::write: File::create(path)?.write_all(contents)
fs_write(f, path, content) ==
    LET file == File_create(f, path)
    IN  IF ~file.ok THEN [ok |-> FALSE, fs |-> f]
        ELSE write_all(file.fs, path, content)

\* fs::read
fs_read(f, path) ==
    IF IsFile(f, path) THEN [ok |-> TRUE, content |-> f.files[path]]
    ELSE [ok |-> FALSE, content |-> <<>>]

\* fs::read_dir: the names of the entries (files and directories) of a directory
fs_read_dir(f, path) ==
    IF ~IsDir(f, path) THEN [ok |-> FALSE, names |-> {}]
    ELSE [ok |-> TRUE,
          names |-> {p[Len(p)] : p \in {q \in f.dirs \cup DOMAIN f.files :
                                          q # <<>> /\ Parent(q) = path}}]

(***************************************************************************)
(* BLS12-381 (crate blst, min_pk).  G1 and G2 elements are integers:       *)
(* 0 is the point at infinity, 1..BLS_ORDER-1 the other elements of the    *)
(* prime-order subgroup, BLS_ORDER..255 points outside the subgroup.       *)
(***************************************************************************)
CIPHER_SUITE == "BLS_SIG_BLS12381G2_XMD:SHA-256_SSWU_RO_NUL_"

\* order of the scalar field (a prime that fits one byte)
BLS_ORDER == 251

\* the generator of G1
G1_GEN == 2

\* length of a serialised secret key (32 in blst) and compressed public key (48)
BLS_SK_LEN == 2

BLS_PK_LEN == 2

InGroup(p) == p \in 0..(BLS_ORDER - 1)

\* SecretKey::sk_to_pk
sk_to_pk(sk) == (sk * G1_GEN) % BLS_ORDER

\* SecretKey::to_bytes / SecretKey::serialize: big-endian scalar
sk_to_bytes(sk) == <<sk \div 256, sk % 256>>

\* SecretKey::from_bytes: exact length, scalar in 1..r-1
sk_from_bytes(bytes) ==
    IF Len(bytes) # BLS_SK_LEN THEN [ok |-> FALSE, sk |-> 0]
    ELSE LET v == 256 * bytes[1] + bytes[2]
         IN  IF v = 0 \/ v >= BLS_ORDER THEN [ok |-> FALSE, sk |-> 0]
             ELSE [ok |-> TRUE, sk |-> v]

\* PublicKey::compress / to_bytes: compression flag 0x80, infinity flag 0x40
pk_compress(pk) == IF pk = 0 THEN <<192, 0>> ELSE <<128, pk>>

\* PublicKey::from_bytes: deserialises a point, no subgroup check
pk_from_bytes(bytes) ==
    IF Len(bytes) # BLS_PK_LEN THEN [ok |-> FALSE, pk |-> 0]
    ELSE IF bytes[1] = 192 /\ bytes[2] = 0 THEN [ok |-> TRUE, pk |-> 0]
    ELSE IF bytes[1] = 128 /\ bytes[2] # 0 THEN [ok |-> TRUE, pk |-> bytes[2]]
    ELSE [ok |-> FALSE, pk |-> 0]

RECURSIVE BytesValue(_, _)
BytesValue(bytes, acc) ==
    IF bytes = <<>> THEN acc
    ELSE BytesValue(Tail(bytes), (acc * 256 + Head(bytes) + 1) % (BLS_ORDER - 1))

\* hash_to_curve of aug || msg under the domain-separation tag: a non-zero G2 element
hash_to_g2(msg, dst, aug) ==
    1 + ((BytesValue(aug \o msg, 0) + (IF dst = CIPHER_SUITE THEN 0 ELSE 97))
            % (BLS_ORDER - 1))

\* the pairing e(P, Q) of P in G1 and Q in G2
Pairing(p, q) == (p * q) % BLS_ORDER

\* SecretKey::sign
sk_sign(sk, msg, dst, aug) == (sk * hash_to_g2(msg, dst, aug)) % BLS_ORDER

RECURSIVE SumPairings(_, _, _, _)
SumPairings(pks, msgs, dst, i) ==
    IF i > Len(pks) THEN 0
    ELSE (Pairing(pks[i], hash_to_g2(msgs[i], dst, <<>>))
            + SumPairings(pks, msgs, dst, i + 1)) % BLS_ORDER

\* Signature::aggregate_verify
sig_aggregate_verify(sig, sig_groupcheck, msgs, dst, pks, pks_validate) ==
    IF Len(pks) = 0 \/ Len(msgs) # Len(pks) THEN "BLST_VERIFY_FAIL"
    ELSE IF \E i \in 1..Len(pks) : pks[i] = 0 THEN "BLST_PK_IS_INFINITY"
    ELSE IF pks_validate /\ \E i \in 1..Len(pks) : ~InGroup(pks[i])
         THEN "BLST_POINT_NOT_IN_GROUP"
    ELSE IF sig_groupcheck /\ ~InGroup(sig) THEN "BLST_POINT_NOT_IN_GROUP"
    ELSE IF /\ InGroup(sig)
            /\ \A i \in 1..Len(pks) : InGroup(pks[i])
            /\ SumPairings(pks, msgs, dst, 1) = Pairing(G1_GEN, sig)
         THEN "BLST_SUCCESS"
    ELSE "BLST_VERIFY_FAIL"

\* Signature::verify
sig_verify(sig, sig_groupcheck, msg, dst, aug, pk, pk_validate) ==
    sig_aggregate_verify(sig, sig_groupcheck, <<aug \o msg>>, dst, <<pk>>, pk_validate)

RECURSIVE SumPoints(_, _)
SumPoints(ps, i) ==
    IF i > Len(ps) THEN 0 ELSE (ps[i] + SumPoints(ps, i + 1)) % BLS_ORDER

\* AggregatePublicKey::aggregate
AggregatePublicKey_aggregate(pks, pks_validate) ==
    IF Len(pks) = 0 THEN [err |-> "BLST_AGGR_TYPE_MISMATCH", point |-> 0]
    ELSE IF pks_validate /\ \E i \in 1..Len(pks) : pks[i] = 0
         THEN [err |-> "BLST_PK_IS_INFINITY", point |-> 0]
    ELSE IF pks_validate /\ \E i \in 1..Len(pks) : ~InGroup(pks[i])
         THEN [err |-> "BLST_POINT_NOT_IN_GROUP", point |-> 0]
    ELSE [err |-> "BLST_SUCCESS", point |-> SumPoints(pks, 1)]

\* AggregateSignature::aggregate
AggregateSignature_aggregate(sigs, sigs_groupcheck) ==
    IF Len(sigs) = 0 THEN [err |-> "BLST_AGGR_TYPE_MISMATCH", point |-> 0]
    ELSE IF sigs_groupcheck /\ \E i \in 1..Len(sigs) : ~InGroup(sigs[i])
         THEN [err |-> "BLST_POINT_NOT_IN_GROUP", point |-> 0]
    ELSE [err |-> "BLST_SUCCESS", point |-> SumPoints(sigs, 1)]

(***************************************************************************)
(* secp256k1, Keccak-256 and ECIES (crates libsecp256k1, sha3, ecies).     *)
(* A curve point is the integer 1..ETH_ORDER-1 that is its x coordinate.   *)
(***************************************************************************)
ETH_ORDER == 13

SECP_GEN == 5

\* length of a serialised secret key (32), a full public key (65), a digest (32)
ETH_SK_LEN == 2

ETH_PK_LEN == 3

DIGEST_LEN == 4

\* offset of the address in the digest (12: the last 20 of 32 bytes)
ADDR_OFFSET == 2

CurveY(x) == (x * x * x + 7) % 256

eth_sk_to_pk(sk) == (sk * SECP_GEN) % ETH_ORDER

\* PublicKey::serialize: 0x04 || X || Y
eth_pk_serialize(pk) == <<4, pk, CurveY(pk)>>

\* PublicKey::parse_slice: full (0x04) or compressed (0x02 / 0x03) encoding
eth_pk_parse(bytes) ==
    IF Len(bytes) = 3 /\ bytes[1] = 4 /\ bytes[2] \in 1..(ETH_ORDER - 1)
       /\ bytes[3] = CurveY(bytes[2])
    THEN [ok |-> TRUE, pk |-> bytes[2]]
    ELSE IF Len(bytes) = 2 /\ bytes[2] \in 1..(ETH_ORDER - 1)
            /\ bytes[1] = 2 + (CurveY(bytes[2]) % 2)
    THEN [ok |-> TRUE, pk |-> bytes[2]]
    ELSE [ok |-> FALSE, pk |-> 0]

\* SecretKey::serialize
eth_sk_serialize(sk) == <<sk \div 256, sk % 256>>

\* SecretKey::parse_slice
eth_sk_parse(bytes) ==
    IF Len(bytes) # ETH_SK_LEN THEN [ok |-> FALSE, sk |-> 0]
    ELSE LET v == 256 * bytes[1] + bytes[2]
         IN  IF v = 0 \/ v >= ETH_ORDER THEN [ok |-> FALSE, sk |-> 0]
             ELSE [ok |-> TRUE, sk |-> v]

RECURSIVE Absorb(_, _)
Absorb(bytes, st) ==
    IF bytes = <<>> THEN st
    ELSE Absorb(Tail(bytes), (st * 31 + Head(bytes) + 7) % 65521)

\* keccak: a fixed-length digest of the input bytes
keccak(bytes) ==
    LET st == Absorb(bytes, 1)
    IN  [k \in 1..DIGEST_LEN |-> ((st + 131 * k) * (2 * k + 1)) % 256]

\* ECDH shared point and the symmetric key derived from it
Shared(sk, pk) == (sk * pk) % ETH_ORDER

Kdf(eph_pk, shared) == (17 * shared + 3 * eph_pk + 5) % 256

RECURSIVE SumBytes(_)
SumBytes(bytes) == IF bytes = <<>> THEN 0 ELSE Head(bytes) + SumBytes(Tail(bytes))

Tag(key, enc) == (key * 7 + SumBytes(enc) + Len(enc)) % 256

\* ecies::encrypt with ephemeral secret eph:
\* ephemeral public key || authentication tag || encrypted bytes
ecies_encrypt(receiver_pub, msg, eph) ==
    LET rp == eth_pk_parse(receiver_pub)
        eph_pk == eth_sk_to_pk(eph)
        key == Kdf(eph_pk, Shared(eph, rp.pk))
        enc == [i \in 1..Len(msg) |-> (msg[i] + key) % 256]
    IN  IF ~rp.ok THEN [ok |-> FALSE, bytes |-> <<>>]
        ELSE [ok |-> TRUE, bytes |-> eth_pk_serialize(eph_pk) \o <<Tag(key, enc)>> \o enc]

\* ecies::decrypt
ecies_decrypt(receiver_sec, ct) ==
    LET rs == eth_sk_parse(receiver_sec)
    IN  IF ~rs.ok \/ Len(ct) < ETH_PK_LEN + 1 THEN [ok |-> FALSE, bytes |-> <<>>]
        ELSE LET ep == eth_pk_parse(SubSeq(ct, 1, ETH_PK_LEN))
                 key == Kdf(ep.pk, Shared(rs.sk, ep.pk))
                 enc == SubSeq(ct, ETH_PK_LEN + 2, Len(ct))
             IN  IF ~ep.ok \/ ct[ETH_PK_LEN + 1] # Tag(key, enc)
                 THEN [ok |-> FALSE, bytes |-> <<>>]
                 ELSE [ok |-> TRUE,
                       bytes |-> [i \in 1..Len(enc) |-> (enc[i] - key) % 256]]

(***************************************************************************)
(* The functions of src/keys.rs.  A Result is a record whose field outcome *)
(* is "Ok", "Err" (with the error message in err) or "Panic" (a failed     *)
(* assertion).  The randomness a function draws is passed to it; functions *)
(* that may touch the key store take the file system f and return it as fs.*)
(***************************************************************************)
\* the ASCII code of '0'..'9', 'a'..'f', 'A'..'F' and 'x'
AsciiOf(c) ==
    IF ~IsHexChar(c) THEN 120
    ELSE IF HexVal(c) < 10 THEN 48 + HexVal(c)
    ELSE IF c = to_lowercase_char(c) THEN 87 + HexVal(c)
    ELSE 55 + HexVal(c)

RECURSIVE trim_start_matches_0x(_)
\* str::trim_start_matches("0x"): removes every leading repetition of "0x"
trim_start_matches_0x(a) ==
    IF Len(a) >= 2 /\ a[1] = "0" /\ a[2] = "x"
    THEN trim_start_matches_0x(SubSeq(a, 3, Len(a))) ELSE a

\* checksum that hashes the address in the case it was given
checksum_hashes_given_case(address) ==
    LET addr == to_lowercase(trim_start_matches_0x(address))
        given == trim_start_matches_0x(address)
        addr_bytes == [i \in 1..Len(given) |-> AsciiOf(given[i])]
        address_hash == hex_encode(keccak(addr_bytes))
    IN  IF Len(addr) > Len(address_hash)
        THEN [outcome |-> "Panic", err |-> "byte index out of range", str |-> <<>>]
        ELSE [outcome |-> "Ok", err |-> "",
              str |-> <<"0", "x">> \o
                      [i \in 1..Len(addr) |->
                          IF HexVal(address_hash[i]) > 7
                          THEN to_uppercase_char(addr[i]) ELSE addr[i]]]

\* checksum: EIP-55 casing of a hex address, decided by the digest of its lower case
checksum(address) ==
    LET addr == to_lowercase(trim_start_matches_0x(address))
        \* address.as_bytes()
        addr_bytes == [i \in 1..Len(addr) |-> AsciiOf(addr[i])]
        address_hash == hex_encode(keccak(addr_bytes))
    IN  IF Len(addr) > Len(address_hash)
        THEN [outcome |-> "Panic", err |-> "byte index out of range", str |-> <<>>]
        ELSE [outcome |-> "Ok", err |-> "",
              str |-> <<"0", "x">> \o
                      [i \in 1..Len(addr) |->
                          IF HexVal(address_hash[i]) > 7
                          THEN to_uppercase_char(addr[i]) ELSE addr[i]]]

\* pk_to_eth_addr: checksummed hex of the last bytes of keccak(pk bytes without the tag)
pk_to_eth_addr(pk) ==
    LET pk_bytes == eth_pk_serialize(pk)
        digest == keccak(SubSeq(pk_bytes, 2, Len(pk_bytes)))
        hex_str == hex_encode(SubSeq(digest, ADDR_OFFSET + 1, DIGEST_LEN))
    IN  IF Len(pk_bytes) # ETH_PK_LEN
        THEN [outcome |-> "Err", err |-> "SECP256K1 pub key must be 65B", str |-> <<>>]
        ELSE checksum(hex_str)

\* write_key: create the parent directories, then write the whole file
write_key(f, fname, sk_hex) ==
    LET file_path == PathBuf(KEYS_DIR, fname)
        d == IF file_path # <<>> THEN create_dir_all(f, Parent(file_path))
             ELSE [ok |-> TRUE, fs |-> f]
        w == fs_write(d.fs, file_path, sk_hex)
    IN  IF ~d.ok THEN [outcome |-> "Err", err |-> "Failed to create keys dir", fs |-> f]
        ELSE IF ~w.ok THEN [outcome |-> "Err", err |-> "failed to write sk", fs |-> d.fs]
        ELSE [outcome |-> "Ok", err |-> "", fs |-> w.fs]

\* save_eth_key naming the file by the address before checksum casing
save_eth_key_lowercase(f, sk, pk) ==
    LET addr == pk_to_eth_addr(pk)
        sk_hex == hex_encode(eth_sk_serialize(sk))
        w == write_key(f, ETH_PREFIX \o to_lowercase(addr.str), sk_hex)
    IN  IF addr.outcome # "Ok"
        THEN [outcome |-> addr.outcome,
              err |-> "couldnt convert pk to eth addr to use as file name",
              fs |-> f, pk |-> 0]
        ELSE IF w.outcome # "Ok"
        THEN [outcome |-> "Err", err |-> "eth sk failed to save", fs |-> w.fs, pk |-> 0]
        ELSE [outcome |-> "Ok", err |-> "", fs |-> w.fs, pk |-> pk]

\* save_eth_key: file eth_keys/<address> holds the hex of the secret
save_eth_key(f, sk, pk) ==
    LET addr == pk_to_eth_addr(pk)
        sk_hex == hex_encode(eth_sk_serialize(sk))
        w == write_key(f, ETH_PREFIX \o addr.str, sk_hex)
    IN  IF addr.outcome # "Ok"
        THEN [outcome |-> addr.outcome,
              err |-> "couldnt convert pk to eth addr to use as file name",
              fs |-> f, pk |-> 0]
        ELSE IF w.outcome # "Ok"
        THEN [outcome |-> "Err", err |-> "eth sk failed to save", fs |-> w.fs, pk |-> 0]
        ELSE [outcome |-> "Ok", err |-> "", fs |-> w.fs, pk |-> pk]

\* eth_key_gen, with sk the secret drawn by new_eth_key
eth_key_gen(f, sk) ==
    LET r == save_eth_key(f, sk, eth_sk_to_pk(sk))
    IN  IF r.outcome = "Err" THEN [r EXCEPT !.err = "Failed to save generated ETH key"]
        ELSE r

\* bls_key_gen that saves the key whatever save_key says
bls_key_gen_always_saves(f, sk, save_key) ==
    LET pk == sk_to_pk(sk)
        pk_hex == hex_encode(pk_compress(sk_to_pk(sk)))
        sk_hex == hex_encode(sk_to_bytes(sk))
        w == write_key(f, BLS_PREFIX \o pk_hex, sk_hex)
    IN  IF w.outcome # "Ok"
        THEN [outcome |-> "Err", err |-> "failed to save bls key", fs |-> w.fs, pk |-> 0]
        ELSE [outcome |-> "Ok", err |-> "", fs |-> w.fs, pk |-> pk]

\* bls_key_gen, with sk the secret drawn by new_bls_key
bls_key_gen(f, sk, save_key) ==
    LET pk == sk_to_pk(sk)
        pk_hex == hex_encode(pk_compress(sk_to_pk(sk)))
        sk_hex == hex_encode(sk_to_bytes(sk))
        w == IF save_key THEN write_key(f, BLS_PREFIX \o pk_hex, sk_hex)
             ELSE [outcome |-> "Ok", err |-> "", fs |-> f]
    IN  IF w.outcome # "Ok"
        THEN [outcome |-> "Err", err |-> "failed to save bls key", fs |-> w.fs, pk |-> 0]
        ELSE [outcome |-> "Ok", err |-> "", fs |-> w.fs, pk |-> pk]

\* bls_key_provision that encrypts the public key bytes in place of the secret
bls_key_provision_encrypts_pk(f, eth_pk_hex, sk, eph) ==
    LET pk == sk_to_pk(sk)
        receiver_pub == hex_decode(eth_pk_hex)
        ct_sk_bytes == ecies_encrypt(receiver_pub.bytes, pk_compress(pk), eph)
    IN  IF ~receiver_pub.ok
        THEN [outcome |-> "Err", err |-> "couldnt decode eth_pk_hex in bls_key_provision",
              fs |-> f, ct_sk_hex |-> <<>>, pk |-> 0]
        ELSE IF ~ct_sk_bytes.ok
        THEN [outcome |-> "Err", err |-> "Couldn't encrypt bls sk with pk",
              fs |-> f, ct_sk_hex |-> <<>>, pk |-> 0]
        ELSE [outcome |-> "Ok", err |-> "", fs |-> f,
              ct_sk_hex |-> hex_encode(ct_sk_bytes.bytes), pk |-> pk]

\* bls_key_provision, with sk drawn by new_bls_key and eph by ecies::encrypt
bls_key_provision(f, eth_pk_hex, sk, eph) ==
    LET pk == sk_to_pk(sk)
        receiver_pub == hex_decode(eth_pk_hex)
        ct_sk_bytes == ecies_encrypt(receiver_pub.bytes, sk_to_bytes(sk), eph)
    IN  IF ~receiver_pub.ok
        THEN [outcome |-> "Err", err |-> "couldnt decode eth_pk_hex in bls_key_provision",
              fs |-> f, ct_sk_hex |-> <<>>, pk |-> 0]
        ELSE IF ~ct_sk_bytes.ok
        THEN [outcome |-> "Err", err |-> "Couldn't encrypt bls sk with pk",
              fs |-> f, ct_sk_hex |-> <<>>, pk |-> 0]
        ELSE [outcome |-> "Ok", err |-> "", fs |-> f,
              ct_sk_hex |-> hex_encode(ct_sk_bytes.bytes), pk |-> pk]

\* dist_bls_key_gen(n), with sks the n secrets drawn by new_bls_key
dist_bls_key_gen(f, sks) ==
    LET pks == [i \in 1..Len(sks) |-> sk_to_pk(sks[i])]
        agg_pk_res == AggregatePublicKey_aggregate(pks, TRUE)
    IN  IF agg_pk_res.err = "BLST_SUCCESS"
        THEN [outcome |-> "Ok", err |-> "", fs |-> f,
              agg_pk |-> agg_pk_res.point, sks |-> sks]
        ELSE [outcome |-> "Err", err |-> "Failed to aggregate BLS pub keys", fs |-> f,
              agg_pk |-> 0, sks |-> <<>>]

\* verify_bls_sig that takes BLST_VERIFY_FAIL for success
verify_bls_sig_accepts_verify_fail(sig, pk, msg) ==
    IF sig_verify(sig, TRUE, msg, CIPHER_SUITE, <<>>, pk, TRUE)
         \in {"BLST_SUCCESS", "BLST_VERIFY_FAIL"}
    THEN [outcome |-> "Ok", err |-> ""]
    ELSE [outcome |-> "Err", err |-> "BLS Signature verifcation failed"]

\* verify_bls_sig
verify_bls_sig(sig, pk, msg) ==
    IF sig_verify(sig, TRUE, msg, CIPHER_SUITE, <<>>, pk, TRUE) = "BLST_SUCCESS"
    THEN [outcome |-> "Ok", err |-> ""]
    ELSE [outcome |-> "Err", err |-> "BLS Signature verifcation failed"]

\* read_bls_key reporting an invalid key before an invalid hex string
read_bls_key_parses_first(f, pk_hex) ==
    LET file_path == PathBuf(KEYS_DIR, pk_hex)
        sk_rec_bytes == fs_read(f, file_path)
        sk_rec_dec == hex_decode(sk_rec_bytes.content)
        sk_res == sk_from_bytes(sk_rec_dec.bytes)
    IN  IF ~sk_rec_bytes.ok
        THEN [outcome |-> "Err", err |-> "Unable to read bls sk from pk_hex",
              sk |-> 0, fs |-> f]
        ELSE IF ~sk_res.ok
        THEN [outcome |-> "Err", err |-> "Could not read_bls_key from pk_hex",
              sk |-> 0, fs |-> f]
        ELSE IF ~sk_rec_dec.ok
        THEN [outcome |-> "Err", err |-> "Unable to decode sk hex", sk |-> 0, fs |-> f]
        ELSE [outcome |-> "Ok", err |-> "", sk |-> sk_res.sk, fs |-> f]

\* read_bls_key: the file ./etc/keys/<pk_hex>, hex-decoded and parsed
read_bls_key(f, pk_hex) ==
    LET file_path == PathBuf(KEYS_DIR, pk_hex)
        sk_rec_bytes == fs_read(f, file_path)
        sk_rec_dec == hex_decode(sk_rec_bytes.content)
        sk_res == sk_from_bytes(sk_rec_dec.bytes)
    IN  IF ~sk_rec_bytes.ok
        THEN [outcome |-> "Err", err |-> "Unable to read bls sk from pk_hex",
              sk |-> 0, fs |-> f]
        ELSE IF ~sk_rec_dec.ok
        THEN [outcome |-> "Err", err |-> "Unable to decode sk hex", sk |-> 0, fs |-> f]
        ELSE IF ~sk_res.ok
        THEN [outcome |-> "Err", err |-> "Could not read_bls_key from pk_hex",
              sk |-> 0, fs |-> f]
        ELSE [outcome |-> "Ok", err |-> "", sk |-> sk_res.sk, fs |-> f]

\* read_eth_key: the file ./etc/keys/<fname>, hex-decoded and parsed
read_eth_key(f, fname) ==
    LET file_path == PathBuf(KEYS_DIR, fname)
        sk_rec_bytes == fs_read(f, file_path)
        sk_rec_dec == hex_decode(sk_rec_bytes.content)
        sk_res == eth_sk_parse(sk_rec_dec.bytes)
    IN  IF ~sk_rec_bytes.ok
        THEN [outcome |-> "Err", err |-> "Unable to read eth secret key", sk |-> 0, fs |-> f]
        ELSE IF ~sk_rec_dec.ok
        THEN [outcome |-> "Err", err |-> "Unable to decode sk hex", sk |-> 0, fs |-> f]
        ELSE IF ~sk_res.ok
        THEN [outcome |-> "Err", err |-> "couldn't parse sk bytes to eth sk type",
              sk |-> 0, fs |-> f]
        ELSE [outcome |-> "Ok", err |-> "", sk |-> sk_res.sk, fs |-> f]

\* bls_sign without the comparison of the derived and the decoded public key
bls_sign_skips_keypair_check(f, pk_hex, msg) ==
    LET pk_bytes == hex_decode(pk_hex)
        pk_res == pk_from_bytes(pk_bytes.bytes)
        sk == read_bls_key(f, pk_hex)
        sig == sk_sign(sk.sk, msg, CIPHER_SUITE, <<>>)
        v == verify_bls_sig(sig, pk_res.pk, msg)
    IN  IF ~pk_bytes.ok
        THEN [outcome |-> "Err", err |-> "hex decode", fs |-> f, sig |-> 0]
        ELSE IF ~pk_res.ok
        THEN [outcome |-> "Err", err |-> "Could not recover pk from pk_hex",
              fs |-> f, sig |-> 0]
        ELSE IF sk.outcome # "Ok"
        THEN [outcome |-> "Err", err |-> sk.err, fs |-> sk.fs, sig |-> 0]
        ELSE IF v.outcome # "Ok"
        THEN [outcome |-> "Err", err |-> v.err, fs |-> sk.fs, sig |-> 0]
        ELSE [outcome |-> "Ok", err |-> "", fs |-> sk.fs, sig |-> sig]

\* bls_sign: decode the identifier, read the secret, compare, sign, self-verify
bls_sign(f, pk_hex, msg) ==
    LET pk_bytes == hex_decode(pk_hex)
        pk_res == pk_from_bytes(pk_bytes.bytes)
        sk == read_bls_key(f, pk_hex)
        sig == sk_sign(sk.sk, msg, CIPHER_SUITE, <<>>)
        v == verify_bls_sig(sig, pk_res.pk, msg)
    IN  IF ~pk_bytes.ok
        THEN [outcome |-> "Err", err |-> "hex decode", fs |-> f, sig |-> 0]
        ELSE IF ~pk_res.ok
        THEN [outcome |-> "Err", err |-> "Could not recover pk from pk_hex",
              fs |-> f, sig |-> 0]
        ELSE IF sk.outcome # "Ok"
        THEN [outcome |-> "Err", err |-> sk.err, fs |-> sk.fs, sig |-> 0]
        ELSE IF sk_to_pk(sk.sk) # pk_res.pk
        THEN [outcome |-> "Err", err |-> "Mismatch with input and derived pk",
              fs |-> sk.fs, sig |-> 0]
        ELSE IF v.outcome # "Ok"
        THEN [outcome |-> "Err", err |-> v.err, fs |-> sk.fs, sig |-> 0]
        ELSE [outcome |-> "Ok", err |-> "", fs |-> sk.fs, sig |-> sig]

\* list_bls_keys: the names of the entries of ./etc/keys/
list_bls_keys(f) ==
    LET paths == fs_read_dir(f, SplitPath(KEYS_DIR, <<>>))
    IN  IF ~paths.ok THEN [outcome |-> "Err", err |-> "No keys saved in dir", keys |-> {}]
        ELSE [outcome |-> "Ok", err |-> "", keys |-> paths.names]

\* aggregate_uniform_bls_sigs; stage is the step at which the call ended
aggregate_uniform_bls_sigs(agg_pk, sigs, msg) ==
    LET n == Len(sigs)
        agg == AggregateSignature_aggregate(sigs, TRUE)
        v == sig_verify(agg.point, FALSE, msg, CIPHER_SUITE, <<>>, agg_pk, FALSE)
    IN  IF ~(n > 0)
        THEN [outcome |-> "Panic", err |-> "assertion failed: n > 0", stage |-> "assert"]
        ELSE IF agg.err # "BLST_SUCCESS"
        THEN [outcome |-> "Err", err |-> "could not aggregate the signatures",
              stage |-> "aggregate"]
        ELSE IF v # "BLST_SUCCESS"
        THEN [outcome |-> "Err",
              err |-> "BLS verify() with aggregate pub key failed to verify aggregate bls signature",
              stage |-> "verify"]
        ELSE [outcome |-> "Ok", err |-> "", stage |-> "done"]

\* aggregate_non_uniform_bls_sigs without the check of the per-signature results
aggregate_non_uniform_bls_sigs_unchecked(sigs, pks, msgs) ==
    LET n == Len(sigs)
        agg == AggregateSignature_aggregate(sigs, TRUE)
        v == sig_aggregate_verify(agg.point, FALSE, msgs, CIPHER_SUITE, pks, FALSE)
    IN  IF ~(n > 0)
        THEN [outcome |-> "Panic", err |-> "assertion failed: n > 0", stage |-> "assert"]
        ELSE IF n # Len(pks) \/ n # Len(msgs)
        THEN [outcome |-> "Panic", err |-> "assertion failed: left == right",
              stage |-> "assert"]
        ELSE IF agg.err # "BLST_SUCCESS"
        THEN [outcome |-> "Err", err |-> "could not aggregate the signatures",
              stage |-> "aggregate"]
        ELSE IF v # "BLST_SUCCESS"
        THEN [outcome |-> "Err", err |-> "BLS aggregate_verify failed to verify signatures",
              stage |-> "verify"]
        ELSE [outcome |-> "Ok", err |-> "", stage |-> "done"]

\* aggregate_non_uniform_bls_sigs; stage is the step at which the call ended
aggregate_non_uniform_bls_sigs(sigs, pks, msgs) ==
    LET n == Len(sigs)
        errs == [i \in 1..n |->
                    sig_verify(sigs[i], TRUE, msgs[i], CIPHER_SUITE, <<>>, pks[i], TRUE)]
        agg == AggregateSignature_aggregate(sigs, TRUE)
        v == sig_aggregate_verify(agg.point, FALSE, msgs, CIPHER_SUITE, pks, FALSE)
    IN  IF ~(n > 0)
        THEN [outcome |-> "Panic", err |-> "assertion failed: n > 0", stage |-> "assert"]
        ELSE IF n # Len(pks) \/ n # Len(msgs)
        THEN [outcome |-> "Panic", err |-> "assertion failed: left == right",
              stage |-> "assert"]
        ELSE IF errs # [i \in 1..n |-> "BLST_SUCCESS"]
        THEN [outcome |-> "Err", err |-> "There was an invalid signature in the group",
              stage |-> "per_sig"]
        ELSE IF agg.err # "BLST_SUCCESS"
        THEN [outcome |-> "Err", err |-> "could not aggregate the signatures",
              stage |-> "aggregate"]
        ELSE IF v # "BLST_SUCCESS"
        THEN [outcome |-> "Err", err |-> "BLS aggregate_verify failed to verify signatures",
              stage |-> "verify"]
        ELSE [outcome |-> "Ok", err |-> "", stage |-> "done"]

(***************************************************************************)
(* The key store as a state machine: fs is the file system below the       *)
(* working directory, last the most recent call with its arguments, the    *)
(* randomness it drew and the value it returned.                           *)
(***************************************************************************)
NoFiles == [p \in {} |-> <<>>]

KeysPath == SplitPath(KEYS_DIR, <<>>)

\* what the caller gets: the result without the file system
Ret(r) == [x \in (DOMAIN r) \ {"fs"} |-> r[x]]

Msgs == UNION {[1..k -> 0..MaxByte] : k \in 0..MaxMsgLen}

BlsSks == 1..MaxSk

EthSks == 1..MaxEthSk

BlsId(sk) == hex_encode(pk_compress(sk_to_pk(sk)))

EthId(sk) == pk_to_eth_addr(eth_sk_to_pk(sk)).str

EthPkHex(sk) == hex_encode(eth_pk_serialize(eth_sk_to_pk(sk)))

\* identifiers callers look keys up by: bare and with the category directory
LookupIds ==
    {BlsId(sk) : sk \in BlsSks} \cup {BLS_PREFIX \o BlsId(sk) : sk \in BlsSks}
      \cup {EthId(sk) : sk \in EthSks} \cup {ETH_PREFIX \o EthId(sk) : sk \in EthSks}

\* requester public keys handed to bls_key_provision: valid keys, a string that is
\* not hex, hex that is not a public key
ProvisionInputs ==
    {EthPkHex(sk) : sk \in EthSks} \cup {<<"z", "z">>, <<"0", "4">>}

Init ==
    /\ fs \in {[dirs |-> {<<>>}, files |-> NoFiles],
               [dirs |-> Prefixes(KeysPath), files |-> NoFiles]}
    /\ last = [op |-> "init"]

EthKeyGen ==
    \E sk \in EthSks :
        LET r == eth_key_gen(fs, sk)
        IN  /\ fs' = r.fs
            /\ last' = [op |-> "eth_key_gen", sk |-> sk, res |-> Ret(r)]

BlsKeyGen ==
    \E sk \in BlsSks, save_key \in BOOLEAN :
        LET r == bls_key_gen(fs, sk, save_key)
        IN  /\ fs' = r.fs
            /\ last' = [op |-> "bls_key_gen", sk |-> sk, save_key |-> save_key,
                        res |-> Ret(r)]

BlsKeyProvision ==
    \E eth_pk_hex \in ProvisionInputs, sk \in BlsSks, eph \in 1..MaxEph :
        LET r == bls_key_provision(fs, eth_pk_hex, sk, eph)
        IN  /\ fs' = r.fs
            /\ last' = [op |-> "bls_key_provision", eth_pk_hex |-> eth_pk_hex,
                        sk |-> sk, res |-> Ret(r)]

\* the n secrets drawn, up to their order (the signature specification below draws
\* them in every order)
DistBlsKeyGen ==
    \E n \in 0..MaxN :
        \E sks \in {s \in [1..n -> BlsSks] : \A i \in 1..(n - 1) : s[i] <= s[i + 1]} :
            LET r == dist_bls_key_gen(fs, sks)
            IN  /\ fs' = r.fs
                /\ last' = [op |-> "dist_bls_key_gen", n |-> n, res |-> Ret(r)]

ReadBlsKey ==
    \E pk_hex \in LookupIds :
        LET r == read_bls_key(fs, pk_hex)
        IN  /\ fs' = r.fs
            /\ last' = [op |-> "read_bls_key", id |-> pk_hex, res |-> Ret(r)]

ReadEthKey ==
    \E fname \in LookupIds :
        LET r == read_eth_key(fs, fname)
        IN  /\ fs' = r.fs
            /\ last' = [op |-> "read_eth_key", id |-> fname, res |-> Ret(r)]

\* read_dir yields the entries in an order the platform chooses
ListBlsKeys ==
    LET r == list_bls_keys(fs)
    IN  \E keys \in [1..Cardinality(r.keys) -> r.keys] :
            /\ {keys[i] : i \in DOMAIN keys} = r.keys
            /\ last' = [op |-> "list_bls_keys", res |-> [r EXCEPT !.keys = keys]]
            /\ UNCHANGED fs

\* identifiers handed to bls_sign: those of generated keys, a string that is not
\* hex, the encoding of the point at infinity, an encoding of the wrong length
SignIds ==
    {BlsId(sk) : sk \in BlsSks}
      \cup {<<"z", "z">>, hex_encode(pk_compress(0)), hex_encode(<<Head(pk_compress(1))>>)}

\* messages handed to bls_sign: the empty one and those of one byte
SignMsgs == {msg \in Msgs : Len(msg) <= 1}

BlsSign ==
    \E pk_hex \in SignIds, msg \in SignMsgs :
        LET r == bls_sign(fs, pk_hex, msg)
        IN  /\ fs' = r.fs
            /\ last' = [op |-> "bls_sign", id |-> pk_hex, msg |-> msg, res |-> Ret(r)]

Next ==
    \/ EthKeyGen
    \/ BlsKeyGen
    \/ BlsKeyProvision
    \/ DistBlsKeyGen
    \/ ReadBlsKey
    \/ ReadEthKey
    \/ ListBlsKeys
    \/ BlsSign

Spec == Init /\ [][Next]_vars

\* the files of a category directory, by identifier
FilesUnder(f, prefix) ==
    {p \in DOMAIN f.files : p = PathBuf(KEYS_DIR, prefix \o p[Len(p)])}

TypeOK ==
    /\ fs.dirs \subseteq Prefixes(KeysPath) \cup {PathBuf(KEYS_DIR, BLS_PREFIX),
                                                  PathBuf(KEYS_DIR, ETH_PREFIX)}
    /\ DOMAIN fs.files = FilesUnder(fs, BLS_PREFIX) \cup FilesUnder(fs, ETH_PREFIX)

(***************************************************************************)
(* Properties of the key store.                                            *)
(***************************************************************************)
IdsUnder(f, prefix) == {p[Len(p)] : p \in FilesUnder(f, prefix)}

Contains(seq, sub) ==
    \E k \in 0..(Len(seq) - Len(sub)) : SubSeq(seq, k + 1, k + Len(sub)) = sub

\* C1: a key persisted by bls_key_gen(true) with returned public key pk is found by
\* read_bls_key(hex(compress(pk))), and the secret read derives pk.
C1_BlsRoundTrip ==
    (last.op = "bls_key_gen" /\ last.save_key /\ last.res.outcome = "Ok") =>
        LET r == read_bls_key(fs, hex_encode(pk_compress(last.res.pk)))
        IN  r.outcome = "Ok" /\ sk_to_pk(r.sk) = last.res.pk

\* C2: after eth_key_gen returned pk, read_eth_key(pk_to_eth_addr(pk)) succeeds and the
\* secret read decrypts what is encrypted to pk.
C2_EthRoundTrip ==
    (last.op = "eth_key_gen" /\ last.res.outcome = "Ok") =>
        LET r == read_eth_key(fs, pk_to_eth_addr(last.res.pk).str)
        IN  /\ r.outcome = "Ok"
            /\ \A msg \in Msgs, eph \in 1..MaxEph :
                 LET ct == ecies_encrypt(eth_pk_serialize(last.res.pk), msg, eph)
                     pt == ecies_decrypt(eth_sk_serialize(r.sk), ct.bytes)
                 IN  ct.ok /\ pt.ok /\ pt.bytes = msg

\* C3: a successful list_bls_keys returns exactly the identifiers of the persisted BLS
\* keys (the names of the files under bls_keys/).
C3_ListIsPersistedIds ==
    (last.op = "list_bls_keys" /\ last.res.outcome = "Ok") =>
        {last.res.keys[i] : i \in DOMAIN last.res.keys} = IdsUnder(fs, BLS_PREFIX)

\* C8: the ciphertext returned by bls_key_provision(hex(ethPk)), hex-decoded and
\* decrypted under ethSk, parses as a BLS secret whose public key is the returned one.
C8_ProvisionRoundTrip ==
    \A eth_sk \in EthSks :
        (last.op = "bls_key_provision" /\ last.eth_pk_hex = EthPkHex(eth_sk)) =>
            LET ct == hex_decode(last.res.ct_sk_hex)
                pt == ecies_decrypt(eth_sk_serialize(eth_sk), ct.bytes)
                bls_sk == sk_from_bytes(pt.bytes)
            IN  /\ last.res.outcome = "Ok"
                /\ ct.ok /\ pt.ok /\ bls_sk.ok
                /\ sk_to_pk(bls_sk.sk) = last.res.pk

C8_Witness ==
    /\ last.op = "bls_key_provision"
    /\ last.res.outcome = "Ok"
    /\ \E eth_sk \in EthSks : last.eth_pk_hex = EthPkHex(eth_sk)
    /\ last.res.ct_sk_hex # <<>>

\* C9: bls_key_provision (success or error) and bls_key_gen(false) leave every key file
\* unchanged; bls_key_gen(true) changes only bls_keys/<hex of the returned compressed
\* public key>, whose content becomes the hex of the secret; what is returned is the
\* public key of the secret, and neither the result nor the ciphertext holds the secret.
C9_GenerationFrame ==
    [][/\ (last'.op = "bls_key_provision" \/ (last'.op = "bls_key_gen" /\ ~last'.save_key))
            => fs'.files = fs.files
       /\ (last'.op = "bls_key_gen" /\ last'.save_key /\ last'.res.outcome = "Ok") =>
            LET path == PathBuf(KEYS_DIR,
                                BLS_PREFIX \o hex_encode(pk_compress(last'.res.pk)))
            IN  /\ DOMAIN fs'.files = (DOMAIN fs.files) \cup {path}
                /\ fs'.files[path] = hex_encode(sk_to_bytes(last'.sk))
                /\ \A p \in DOMAIN fs.files : p # path => fs'.files[p] = fs.files[p]
       /\ (last'.op = "bls_key_gen" /\ last'.res.outcome = "Ok") =>
            /\ DOMAIN last'.res = {"outcome", "err", "pk"}
            /\ last'.res.pk = sk_to_pk(last'.sk)
       /\ (last'.op = "bls_key_provision" /\ last'.res.outcome = "Ok") =>
            /\ DOMAIN last'.res = {"outcome", "err", "ct_sk_hex", "pk"}
            /\ last'.res.pk = sk_to_pk(last'.sk)
            /\ ~Contains(last'.res.ct_sk_hex, hex_encode(sk_to_bytes(last'.sk)))
      ]_vars

C9_Witness ==
    /\ last.op = "bls_key_gen"
    /\ ~last.save_key
    /\ last.res.outcome = "Ok"
    /\ FilesUnder(fs, BLS_PREFIX) # {}
    /\ BlsId(last.sk) \notin IdsUnder(fs, BLS_PREFIX)

\* C10: every file under bls_keys/ is named by the hex of the compressed public key of
\* the secret it holds, every file under eth_keys/ by the checksummed address of the
\* public key of the secret it holds.
C10_IdentifierInvariant ==
    /\ \A p \in FilesUnder(fs, BLS_PREFIX) :
         LET dec == hex_decode(fs.files[p])
             sk == sk_from_bytes(dec.bytes)
         IN  dec.ok /\ sk.ok /\ p[Len(p)] = hex_encode(pk_compress(sk_to_pk(sk.sk)))
    /\ \A p \in FilesUnder(fs, ETH_PREFIX) :
         LET dec == hex_decode(fs.files[p])
             sk == eth_sk_parse(dec.bytes)
         IN  dec.ok /\ sk.ok /\ p[Len(p)] = pk_to_eth_addr(eth_sk_to_pk(sk.sk)).str

C10_Witness ==
    /\ Cardinality(FilesUnder(fs, BLS_PREFIX)) >= 2
    /\ Cardinality(FilesUnder(fs, ETH_PREFIX)) >= 2
    /\ last.op = "dist_bls_key_gen"

(***************************************************************************)
(* Verification and aggregation are pure functions: the initial states are *)
(* the calls (the arguments, with the secrets and the tampering they were  *)
(* built from), the actions apply the function called.                     *)
(***************************************************************************)
Sign(sk, msg) == sk_sign(sk, msg, CIPHER_SUITE, <<>>)

\* the k-th message: the digits of k in base MaxByte + 1, MaxMsgLen of them
NumMsgs == (MaxByte + 1) ^ MaxMsgLen

MsgOf(k) == [j \in 1..MaxMsgLen |-> (k \div ((MaxByte + 1) ^ (j - 1))) % (MaxByte + 1)]

\* n pairwise distinct messages, one per signer
DistinctMsgs(n, off) == [i \in 1..n |-> MsgOf((i + off) % NumMsgs)]

RemoveAt(seq, k) == [i \in 1..(Len(seq) - 1) |-> IF i < k THEN seq[i] ELSE seq[i + 1]]

DropLast(seq) == SubSeq(seq, 1, Len(seq) - 1)

\* signatures and public keys handed to verify_bls_sig: genuine ones, the point at
\* infinity and a point outside the subgroup
VerifyCall(sig, pk, msg) ==
    [op |-> "call", fn |-> "verify_bls_sig", sig |-> sig, pk |-> pk, msg |-> msg]

\* the keys of dist_bls_key_gen(n) all sign msg; signature number drop (if not 0) is
\* removed before the call
UniformCall(sks, msg, drop) ==
    LET all == [i \in 1..Len(sks) |-> Sign(sks[i], msg)]
    IN  [op |-> "call", fn |-> "aggregate_uniform_bls_sigs",
         sks |-> sks, drop |-> drop,
         agg_pk |-> dist_bls_key_gen([dirs |-> {<<>>}, files |-> NoFiles], sks).agg_pk,
         sigs |-> IF drop = 0 THEN all ELSE RemoveAt(all, drop),
         msg |-> msg]

\* ways to spoil the arguments of aggregate_non_uniform_bls_sigs
Tampers(n) ==
    {[kind |-> "none", index |-> 0, with |-> <<>>]}
      \cup {[kind |-> "corrupt_sig", index |-> i, with |-> <<v>>] :
                i \in 1..n, v \in {0, 1, BLS_ORDER}}
      \cup {[kind |-> "substitute_msg", index |-> i, with |-> m] : i \in 1..n, m \in Msgs}
      \cup {[kind |-> k, index |-> 0, with |-> <<>>] :
                k \in {"drop_sig", "drop_pk", "drop_msg", "empty"}}

\* each key signs its own message; then the arguments are tampered with
NonUniformCall(sks, off, t) ==
    LET n == Len(sks)
        msgs == DistinctMsgs(n, off)
        sigs == [i \in 1..n |-> Sign(sks[i], msgs[i])]
        pks == [i \in 1..n |-> sk_to_pk(sks[i])]
    IN  [op |-> "call", fn |-> "aggregate_non_uniform_bls_sigs",
         sks |-> sks, off |-> off, tamper |-> t,
         sigs |-> CASE t.kind = "corrupt_sig" ->
                        [sigs EXCEPT ![t.index] =
                            IF t.with[1] = 1 THEN (@ + 1) % BLS_ORDER ELSE t.with[1]]
                    [] t.kind = "drop_sig" -> DropLast(sigs)
                    [] t.kind = "empty" -> <<>>
                    [] OTHER -> sigs,
         pks |-> CASE t.kind = "drop_pk" -> DropLast(pks)
                   [] t.kind = "empty" -> <<>>
                   [] OTHER -> pks,
         msgs |-> CASE t.kind = "substitute_msg" -> [msgs EXCEPT ![t.index] = t.with]
                    [] t.kind = "drop_msg" -> DropLast(msgs)
                    [] t.kind = "empty" -> <<>>
                    [] OTHER -> msgs]

\* the tampering changed argument number index
Spoiled(c) ==
    /\ c.tamper.kind \in {"corrupt_sig", "substitute_msg"}
    /\ c.sigs # NonUniformCall(c.sks, c.off, [kind |-> "none", index |-> 0, with |-> <<>>]).sigs
         \/ c.msgs # DistinctMsgs(Len(c.sks), c.off)

InitSig ==
    /\ fs = [dirs |-> {<<>>}, files |-> NoFiles]
    /\ \/ \E sig \in {Sign(sk, m) : sk \in BlsSks, m \in Msgs} \cup {0, BLS_ORDER},
             pk \in {sk_to_pk(sk) : sk \in BlsSks} \cup {0, BLS_ORDER},
             msg \in Msgs :
              last = VerifyCall(sig, pk, msg)
       \/ \E n \in 1..MaxN :
              \E sks \in [1..n -> BlsSks], msg \in Msgs, drop \in 0..n :
                  last = UniformCall(sks, msg, drop)
       \/ \E n \in 1..(IF MaxN < NumMsgs THEN MaxN ELSE NumMsgs) :
              \E sks \in [1..n -> BlsSks], off \in 0..1, t \in Tampers(n) :
                  last = NonUniformCall(sks, off, t)

VerifyBlsSig ==
    /\ last.op = "call" /\ last.fn = "verify_bls_sig"
    /\ last' = [last EXCEPT !.op = "return"] @@
               [res |-> verify_bls_sig(last.sig, last.pk, last.msg)]
    /\ UNCHANGED fs

AggregateUniformBlsSigs ==
    /\ last.op = "call" /\ last.fn = "aggregate_uniform_bls_sigs"
    /\ last' = [last EXCEPT !.op = "return"] @@
               [res |-> aggregate_uniform_bls_sigs(last.agg_pk, last.sigs, last.msg)]
    /\ UNCHANGED fs

AggregateNonUniformBlsSigs ==
    /\ last.op = "call" /\ last.fn = "aggregate_non_uniform_bls_sigs"
    /\ last' = [last EXCEPT !.op = "return"] @@
               [res |-> aggregate_non_uniform_bls_sigs(last.sigs, last.pks, last.msgs)]
    /\ UNCHANGED fs

NextSig ==
    \/ VerifyBlsSig
    \/ AggregateUniformBlsSigs
    \/ AggregateNonUniformBlsSigs

SpecSig == InitSig /\ [][NextSig]_vars

Returned(fn) == last.op = "return" /\ last.fn = fn

(***************************************************************************)
(* Properties of verification and aggregation.                             *)
(***************************************************************************)
\* C4: for every generated pair (sk, pk) and non-empty message m,
\* verify_bls_sig(sign(sk, m), pk, m) succeeds, and against the public key of a
\* different generated pair it fails with the signature-invalid error.
C4_VerifySoundComplete ==
    Returned("verify_bls_sig") =>
        \A sk \in BlsSks, m \in Msgs \ {<<>>} :
            (last.sig = Sign(sk, m) /\ last.msg = m) =>
                /\ last.pk = sk_to_pk(sk) => last.res.outcome = "Ok"
                /\ \A other \in BlsSks \ {sk} :
                     last.pk = sk_to_pk(other) =>
                        /\ last.res.outcome = "Err"
                        /\ last.res.err = "BLS Signature verifcation failed"

C4_Witness ==
    /\ Returned("verify_bls_sig")
    /\ last.res.outcome = "Err"
    /\ \E sk \in BlsSks, other \in BlsSks, m \in Msgs \ {<<>>} :
         sk # other /\ last.sig = Sign(sk, m) /\ last.msg = m /\ last.pk = sk_to_pk(other)

\* C5: with the n >= 1 secrets and aggregate key of dist_bls_key_gen(n) and every
\* secret signing the same message, aggregate_uniform_bls_sigs over all n signatures
\* succeeds, and with any one signature removed (n = 1 included) it reports a
\* verification failure.
C5_UniformAggregation ==
    Returned("aggregate_uniform_bls_sigs") =>
        /\ last.drop = 0 => last.res.outcome = "Ok"
        /\ last.drop # 0 => last.res.outcome = "Err" /\ last.res.stage = "verify"

\* the part of C5 the code satisfies: n signatures pass, n - 1 >= 1 signatures fail
\* the verification of the aggregate
UniformAggregationOfTwoOrMore ==
    Returned("aggregate_uniform_bls_sigs") =>
        /\ last.drop = 0 => last.res.outcome = "Ok"
        /\ (last.drop # 0 /\ Len(last.sks) >= 2) =>
              last.res.outcome = "Err" /\ last.res.stage = "verify"

\* C6 as claimed: untampered arguments pass the per-signature stage and the aggregate
\* check; a corrupted signature or substituted message at index i fails at the
\* per-signature stage, and the failure names index i, so that it differs from the
\* failure of the same tampering at any other index.
C6_NonUniformNamesIndex ==
    Returned("aggregate_non_uniform_bls_sigs") =>
        /\ last.tamper.kind = "none" => last.res.outcome = "Ok" /\ last.res.stage = "done"
        /\ Spoiled(last) =>
              /\ last.res.outcome = "Err" /\ last.res.stage = "per_sig"
              /\ \A j \in (1..Len(last.sks)) \ {last.tamper.index} :
                    LET c == NonUniformCall(last.sks, last.off,
                                            [last.tamper EXCEPT !.index = j])
                    IN  Spoiled(c) =>
                          aggregate_non_uniform_bls_sigs(c.sigs, c.pks, c.msgs).err
                            # last.res.err

\* C6 as amended: the failure at the per-signature stage is the one error
\* "There was an invalid signature in the group", whatever the index.
C6_NonUniformPerSignatureStage ==
    Returned("aggregate_non_uniform_bls_sigs") =>
        /\ last.tamper.kind = "none" => last.res.outcome = "Ok" /\ last.res.stage = "done"
        /\ Spoiled(last) =>
              /\ last.res.outcome = "Err" /\ last.res.stage = "per_sig"
              /\ last.res.err = "There was an invalid signature in the group"

C6_Witness ==
    /\ Returned("aggregate_non_uniform_bls_sigs")
    /\ Spoiled(last)
    /\ last.tamper.kind = "substitute_msg"
    /\ last.tamper.index = 2
    /\ Len(last.sks) >= 3
    /\ last.res.stage = "per_sig"

\* C7: an empty signature sequence, or sequences of unequal lengths, make the
\* aggregate functions return an error value, not abort, before any cryptographic work.
C7_PreconditionErrors ==
    /\ Returned("aggregate_uniform_bls_sigs") =>
          (Len(last.sigs) = 0 => last.res.outcome = "Err" /\ last.res.stage = "assert")
    /\ Returned("aggregate_non_uniform_bls_sigs") =>
          ((Len(last.sigs) = 0 \/ Len(last.sigs) # Len(last.pks)
              \/ Len(last.sigs) # Len(last.msgs))
             => last.res.outcome = "Err" /\ last.res.stage = "assert")

\* what the code does on those inputs: the assertion fails before any cryptographic work
PreconditionViolationsPanic ==
    /\ Returned("aggregate_uniform_bls_sigs") =>
          (Len(last.sigs) = 0 => last.res.outcome = "Panic" /\ last.res.stage = "assert")
    /\ Returned("aggregate_non_uniform_bls_sigs") =>
          ((Len(last.sigs) = 0 \/ Len(last.sigs) # Len(last.pks)
              \/ Len(last.sigs) # Len(last.msgs))
             => last.res.outcome = "Panic" /\ last.res.stage = "assert")

(***************************************************************************)
(* Address derivation is a pure function: the initial states are the calls *)
(* of checksum and pk_to_eth_addr, the actions apply them.                 *)
(***************************************************************************)
\* number of hex characters of an address (40)
AddrChars == 2 * (DIGEST_LEN - ADDR_OFFSET)

\* the characters the addresses handed to checksum are made of
AddrAlphabet == {"0", "7", "a", "c", "E", "F"}

ChecksumCalls ==
    {[op |-> "call", fn |-> "checksum", address |-> prefix \o a] :
        prefix \in {<<>>, <<"0", "x">>}, a \in [1..AddrChars -> AddrAlphabet]}

AddrCalls ==
    {[op |-> "call", fn |-> "pk_to_eth_addr", pk |-> pk] : pk \in 1..(ETH_ORDER - 1)}

InitAddr ==
    /\ fs = [dirs |-> {<<>>}, files |-> NoFiles]
    /\ \/ last \in ChecksumCalls
       \/ last \in AddrCalls

Checksum ==
    /\ last.op = "call" /\ last.fn = "checksum"
    /\ last' = [last EXCEPT !.op = "return"] @@ [res |-> checksum(last.address)]
    /\ UNCHANGED fs

PkToEthAddr ==
    /\ last.op = "call" /\ last.fn = "pk_to_eth_addr"
    /\ last' = [last EXCEPT !.op = "return"] @@ [res |-> pk_to_eth_addr(last.pk)]
    /\ UNCHANGED fs

NextAddr ==
    \/ Checksum
    \/ PkToEthAddr

SpecAddr == InitAddr /\ [][NextAddr]_vars

IsChecksummedAddress(str) ==
    /\ Len(str) = 2 + AddrChars
    /\ str[1] = "0" /\ str[2] = "x"
    /\ \A i \in 3..Len(str) : IsHexChar(str[i])
    /\ checksum(to_lowercase(str)).str = str

\* C11: pk_to_eth_addr returns "0x" followed by exactly the address's hex characters,
\* cased as checksum cases its own lower-case form; and for every hex address x, with
\* or without a leading "0x", checksum(lowercase(checksum(x))) = checksum(x).
C11_ChecksumStable ==
    /\ Returned("pk_to_eth_addr") =>
          last.res.outcome = "Ok" /\ IsChecksummedAddress(last.res.str)
    /\ Returned("checksum") =>
          /\ last.res.outcome = "Ok"
          /\ IsChecksummedAddress(last.res.str)
          /\ checksum(to_lowercase(last.res.str)) = last.res

C11_Witness ==
    /\ Returned("checksum")
    /\ Len(last.address) = Len(last.res.str)
    /\ \E i \in DOMAIN last.address : last.address[i] \in {"E", "F"}
    /\ \E i \in DOMAIN last.res.str :
         last.res.str[i] \in {"A", "C"} /\ last.address[i] \in {"a", "c"}
    /\ \E i \in DOMAIN last.res.str : last.res.str[i] \in {"e", "f"}

(***************************************************************************)
(* The key store under direct writes: write_key is public, so a file of     *)
(* ./etc/keys/ can hold any string a caller passes.                         *)
(***************************************************************************)
\* file names handed to write_key: the identifiers the readers look up
WrittenNames == {BlsId(1), EthId(1)}

\* contents handed to write_key: serialised secrets, a string that is not hex, hex of
\* the wrong byte length, the two group orders (the smaller is a BLS secret)
WrittenContents ==
    {hex_encode(sk_to_bytes(sk)) : sk \in BlsSks}
      \cup {<<"z", "z">>, hex_encode(<<0>>), hex_encode(sk_to_bytes(BLS_ORDER)),
            hex_encode(sk_to_bytes(ETH_ORDER))}

WriteKey ==
    \E fname \in WrittenNames, sk_hex \in WrittenContents :
        LET r == write_key(fs, fname, sk_hex)
        IN  /\ fs' = r.fs
            /\ last' = [op |-> "write_key", fname |-> fname, sk_hex |-> sk_hex,
                        res |-> Ret(r)]

NextStore ==
    \/ WriteKey
    \/ ReadBlsKey
    \/ ReadEthKey
    \/ BlsSign

SpecStore == Init /\ [][NextStore]_vars

\* the file ./etc/keys/<pk_hex> holds the hex of a secret key whose public key is the
\* one pk_hex encodes
StoredKeyMatches(f, pk_hex) ==
    LET path == SplitPath(KEYS_DIR, <<>>) \o SplitPath(pk_hex, <<>>)
        id == hex_decode(pk_hex)
        pk == pk_from_bytes(id.bytes)
    IN  /\ id.ok /\ pk.ok
        /\ path \in DOMAIN f.files
        /\ LET content == hex_decode(f.files[path])
               sk == sk_from_bytes(content.bytes)
           IN  content.ok /\ sk.ok /\ (sk.sk * G1_GEN) % BLS_ORDER = pk.pk

\* C12: a bls_sign call returns a signature only after its checks passed in order: the
\* identifier decodes to a public key, then the secret is read, then the public key
\* derived from the secret equals the decoded one (else the mismatch error, and nothing
\* is signed), then the signature verifies. When the stored content and the identifier
\* diverge the call returns an error; a returned signature verifies under the
\* identifier's public key; the key store is the same after the call as before.
C12_SignChecksInOrder ==
    [][last'.op = "bls_sign" =>
        LET pk_hex == last'.id
            res == last'.res
            id == hex_decode(pk_hex)
            pk == pk_from_bytes(id.bytes)
            rd == read_bls_key(fs, pk_hex)
        IN  /\ fs' = fs
            /\ res.outcome \in {"Ok", "Err"}
            /\ ~id.ok => res.outcome = "Err" /\ res.err = "hex decode"
            /\ id.ok /\ ~pk.ok =>
                   res.outcome = "Err" /\ res.err = "Could not recover pk from pk_hex"
            /\ id.ok /\ pk.ok /\ rd.outcome # "Ok" =>
                   res.outcome = "Err" /\ res.err = rd.err
            /\ id.ok /\ pk.ok /\ rd.outcome = "Ok" /\ sk_to_pk(rd.sk) # pk.pk =>
                   /\ res.outcome = "Err"
                   /\ res.err = "Mismatch with input and derived pk"
                   /\ res.sig = 0
            /\ ~StoredKeyMatches(fs, pk_hex) => res.outcome = "Err"
            /\ StoredKeyMatches(fs, pk_hex) => res.outcome = "Ok"
            /\ res.outcome = "Ok" =>
                   /\ StoredKeyMatches(fs, pk_hex)
                   /\ res.sig = sk_sign(rd.sk, last'.msg, CIPHER_SUITE, <<>>)
                   /\ sig_verify(res.sig, TRUE, last'.msg, CIPHER_SUITE, <<>>, pk.pk, TRUE)
                        = "BLST_SUCCESS"]_vars

\* bls_sign returned a signature for the key written under its identifier
C12_Witness ==
    /\ last.op = "bls_sign"
    /\ last.res.outcome = "Ok"
    /\ last.res.sig # 0
    /\ StoredKeyMatches(fs, last.id)

\* C14: read_bls_key and read_eth_key return the not-found error when no file exists
\* for the identifier, else the decode error when the content is not hex, else the
\* invalid-key error when the bytes are not a key of the scheme, else the key; every
\* failure is an error value, and the files are the same after the read as before.
C14_ReadErrorOrder ==
    [][last'.op \in {"read_bls_key", "read_eth_key"} =>
        LET bls == last'.op = "read_bls_key"
            res == last'.res
            path == PathBuf(KEYS_DIR, last'.id)
            present == path \in DOMAIN fs.files
            content == IF present THEN hex_decode(fs.files[path])
                       ELSE [ok |-> FALSE, bytes |-> <<>>]
            key == IF bls THEN sk_from_bytes(content.bytes)
                   ELSE eth_sk_parse(content.bytes)
        IN  /\ fs' = fs
            /\ res.outcome \in {"Ok", "Err"}
            /\ ~present =>
                   /\ res.outcome = "Err"
                   /\ res.err = IF bls THEN "Unable to read bls sk from pk_hex"
                                ELSE "Unable to read eth secret key"
            /\ present /\ ~content.ok =>
                   res.outcome = "Err" /\ res.err = "Unable to decode sk hex"
            /\ present /\ content.ok /\ ~key.ok =>
                   /\ res.outcome = "Err"
                   /\ res.err = IF bls THEN "Could not read_bls_key from pk_hex"
                                ELSE "couldn't parse sk bytes to eth sk type"
            /\ present /\ content.ok /\ key.ok =>
                   res.outcome = "Ok" /\ res.sk = key.sk]_vars

\* a read found the file and hex in it, and the bytes were not a key
C14_Witness ==
    /\ last.op = "read_bls_key"
    /\ PathBuf(KEYS_DIR, last.id) \in DOMAIN fs.files
    /\ hex_decode(fs.files[PathBuf(KEYS_DIR, last.id)]).ok
    /\ last.res.outcome = "Err"
    /\ last.res.err = "Could not read_bls_key from pk_hex"

(***************************************************************************)
(* Two callers of write_key, each call a sequence of system calls:          *)
(* create_dir_all, File::create, write_all.                                 *)
(***************************************************************************)
Writers == {1, 2}

\* names the generators hand to write_key
SavedNames == {BLS_PREFIX \o BlsId(1), ETH_PREFIX \o EthId(1)}

\* hex of a serialised secret, as the generators hand to write_key
SecretHexes ==
    {hex_encode(sk_to_bytes(sk)) : sk \in BlsSks}
      \cup {hex_encode(eth_sk_serialize(sk)) : sk \in EthSks}

NotCalled ==
    [pc |-> "idle", fname |-> <<>>, sk_hex |-> <<>>, raced |-> FALSE,
     res |-> [outcome |-> "", err |-> ""]]

InitWrite ==
    /\ fs \in {[dirs |-> {<<>>}, files |-> NoFiles],
               [dirs |-> Prefixes(KeysPath), files |-> NoFiles]}
    /\ last = [op |-> "write_key", w |-> [i \in Writers |-> NotCalled], latest |-> 0]

\* a caller enters write_key
Call(i) ==
    /\ last.w[i].pc \in {"idle", "done"}
    /\ \E fname \in SavedNames, sk_hex \in SecretHexes :
           last' = [last EXCEPT !.w[i] = [NotCalled EXCEPT !.pc = "create_dir_all",
                                                          !.fname = fname,
                                                          !.sk_hex = sk_hex]]
    /\ UNCHANGED fs

CreateDirAll(i) ==
    /\ last.w[i].pc = "create_dir_all"
    /\ LET file_path == PathBuf(KEYS_DIR, last.w[i].fname)
           d == IF file_path # <<>> THEN create_dir_all(fs, Parent(file_path))
                ELSE [ok |-> TRUE, fs |-> fs]
       IN  /\ fs' = d.fs
           /\ last' = IF d.ok THEN [last EXCEPT !.w[i].pc = "File_create"]
                      ELSE [last EXCEPT !.w[i].pc = "done",
                                        !.w[i].res = [outcome |-> "Err",
                                                      err |-> "Failed to create keys dir"]]

FileCreate(i) ==
    /\ last.w[i].pc = "File_create"
    /\ LET file == File_create(fs, PathBuf(KEYS_DIR, last.w[i].fname))
       IN  /\ fs' = file.fs
           /\ last' = IF file.ok THEN [last EXCEPT !.w[i].pc = "write_all"]
                      ELSE [last EXCEPT !.w[i].pc = "done",
                                        !.w[i].res = [outcome |-> "Err",
                                                      err |-> "failed to write sk"]]

\* raced: another caller holds the same file open while this one writes
WriteAll(i) ==
    /\ last.w[i].pc = "write_all"
    /\ LET w == write_all(fs, PathBuf(KEYS_DIR, last.w[i].fname), last.w[i].sk_hex)
       IN  /\ fs' = w.fs
           /\ last' = [last EXCEPT
                          !.latest = i,
                          !.w[i].pc = "done",
                          !.w[i].raced = \E j \in Writers \ {i} :
                                            /\ last.w[j].pc = "write_all"
                                            /\ last.w[j].fname = last.w[i].fname,
                          !.w[i].res = [outcome |-> "Ok", err |-> ""]]

NextWrite ==
    \E i \in Writers :
        \/ Call(i)
        \/ CreateDirAll(i)
        \/ FileCreate(i)
        \/ WriteAll(i)

SpecWrite == InitWrite /\ [][NextWrite]_vars

\* C13: a write_key call creates the missing parent directories and returns with the
\* file's entire content equal to its secret hex whether or not the file existed, no
\* step of it changes another file, and no call returns an error; when two callers
\* have written the same name and both have returned, the file holds the secret hex
\* of the call that completed its write last.
C13_LastWriterWins ==
    [][\A i \in Writers :
        LET a == last.w[i]
            b == last'.w[i]
            path == PathBuf(KEYS_DIR, b.fname)
        IN  /\ a.pc # b.pc =>
                   \A p \in (DOMAIN fs.files) \ {path} :
                       p \in DOMAIN fs'.files /\ fs'.files[p] = fs.files[p]
            /\ a.pc = "create_dir_all" /\ b.pc # a.pc =>
                   Prefixes(Parent(path)) \subseteq fs'.dirs
            /\ a.pc # "done" /\ b.pc = "done" =>
                   /\ b.res.outcome = "Ok"
                   /\ Prefixes(Parent(path)) \subseteq fs'.dirs
                   /\ path \in DOMAIN fs'.files
                   /\ fs'.files[path] = b.sk_hex
            /\ (\A j \in Writers : /\ last'.w[j].pc = "done"
                                    /\ last'.w[j].fname = b.fname) =>
                   /\ last'.latest \in Writers
                   /\ fs'.files[path] = last'.w[last'.latest].sk_hex]_vars

\* two calls on the same name with different secrets have both returned Ok; the one
\* that wrote first did so while the other held the file open, and its secret is not
\* in the file
C13_Witness ==
    /\ last.op = "write_key"
    /\ \E i, j \in Writers :
           /\ i # j
           /\ last.w[i].pc = "done" /\ last.w[j].pc = "done"
           /\ last.w[i].res.outcome = "Ok" /\ last.w[j].res.outcome = "Ok"
           /\ last.w[i].fname = last.w[j].fname
           /\ last.w[i].sk_hex # last.w[j].sk_hex
           /\ last.w[i].raced
           /\ last.latest = j
           /\ fs.files[PathBuf(KEYS_DIR, last.w[j].fname)] = last.w[j].sk_hex

====
